---- MODULE Spec2Model ----
(***************************************************************************)
(* Probabilistic interleaving (interleaving/probabilistic.py).             *)
(*                                                                         *)
(* Floating point numbers are modelled as exact rationals <<num, den>>     *)
(* with den > 0, kept in lowest terms, so that "the same float" is "the    *)
(* same pair".  tau ranges over small integers.  Python's None is the      *)
(* document 0; real documents are 1, 2, ...                                *)
(***************************************************************************)
EXTENDS Integers, Sequences, FiniteSets, TLC

\* ---------------------------------------------------------------- bounds
MaxTotal == 5        \* total number of documents in the input lists of a call
MaxInstances == 2    \* most distinct tau values registered in one run
MaxN == 3            \* longest list length looked up directly in a cache
FGrid == 4           \* uniform draws j / FGrid
FBits == 9           \* and draws 1 - 1 / 2^j for j up to FBits
MaxRankLen == 4      \* longest Ranking given to evaluate
MaxClicks == 2
ReplayTotal == 3       \* documents in the input lists of a call of SpecTwoRuns
RoundLen == 4          \* length of each list in the calls of SpecRounds       \* most clicks given to evaluate

DefaultTau == 3      \* Probabilistic.__init__(self, tau=3.0)
Taus == {0, 1, 3}                \* tau values given to the constructor
RankerCounts == {2, 3}           \* numbers of input lists given to multileave
None == 0

\* ------------------------------------------------------------- rationals
RECURSIVE Gcd(_, _)
Gcd(a, b) == IF b = 0 THEN a ELSE Gcd(b, a % b)

RECURSIVE Pow(_, _)
Pow(b, e) == IF e = 0 THEN 1 ELSE b * Pow(b, e - 1)

Rat(n, d) == LET g == Gcd(n, d) IN <<n \div g, d \div g>>
\* sums and quotients cancel common factors before they multiply, which keeps
\* the numbers small
RAdd(x, y) ==
    LET g == Gcd(x[2], y[2])
    IN Rat(x[1] * (y[2] \div g) + y[1] * (x[2] \div g), x[2] * (y[2] \div g))
RDiv(x, y) ==
    LET g1 == Gcd(x[1], y[1])
        g2 == Gcd(x[2], y[2])
    IN Rat((x[1] \div g1) * (y[2] \div g2), (x[2] \div g2) * (y[1] \div g1))
RLess(x, y) == x[1] * y[2] < y[1] * x[2]
RLeq(x, y) == x[1] * y[2] <= y[1] * x[2]
Zero == <<0, 1>>
One == <<1, 1>>

\* --------------------------------------------------------------- state
VARIABLES
    memberReg,   \* MemberCache._tau_to_instance: tau -> (r -> 1 / r^tau)
    sumReg,      \* SumCache._tau_to_instance:    tau -> (n -> sum of weights)
    cumReg,      \* CumulationCache._tau_to_instance: tau -> (n -> breakpoints)
    engine,      \* <<tau>> for an engine whose _cumulation_cache is the table
                 \* of tau, <<>> while no engine exists
    pc,          \* where the current call stands
    op,          \* "none", "interleave" or "multileave"
    lists,       \* the caller's input lists
    rankings,    \* the working copies
    k,
    i,           \* interleave's loop counter
    ranker_indexes,        \* multileave's shuffled indexes still to process
    result,                \* the Ranking's documents
    rank_to_ranker_index,
    number_of_rankers,
    ret,         \* "pending", "Ranking" (result returned) or "None"
    clicks,      \* evaluate's clicked positions
    counts,      \* evaluate's per-ranker counters
    pos,         \* how many clicks evaluate has counted
    win,         \* the tuple evaluate returned, <<>> before it returns
    first,       \* <<clicks, win>> of the first evaluation of this ranking,
                 \* <<>> before it returns
    sample,      \* <<l, f, value>> of the last direct choice_one_of(l) call
                 \* with draw f, <<>> before any
    replay,      \* the second of two runs of one call on the same inputs with
                 \* the same draws: its registries, working lists, documents
                 \* and rank_to_ranker_index; <<>> when only one run is made
    thread,      \* per thread: where it stands in CumulationCache(tau)[n], its
                 \* tau and n, and the instance __new__ returned to it (0: none)
    tau_to_instance,  \* CumulationCache._tau_to_instance, by instance identity
    instances,   \* the CumulationCache objects created so far: tau and entries
    written      \* <<tau, n>> -> how many times self[n] = result has run

cacheVars == <<memberReg, sumReg, cumReg, engine>>
callVars == <<pc, op, lists, rankings, k, i, ranker_indexes, result,
              rank_to_ranker_index, number_of_rankers, ret>>
evalVars == <<clicks, counts, pos, win, first>>
threadVars == <<thread, tau_to_instance, instances, written>>
otherVars == <<sample, replay, threadVars>>
vars == <<cacheVars, callVars, evalVars, otherVars>>

\* ---------------------------------------------------------------- caches
\* MemberCache.__missing__: 1.0 / r ** tau
Weight(tau, r) == IF tau >= 0 THEN Rat(1, Pow(r, tau)) ELSE Rat(Pow(r, 0 - tau), 1)

Put(f, key, v) == (key :> v) @@ f

\* member_cache[r]: the entry, computed and stored when missing
MemberFill(mreg, tau, r) ==
    IF r \in DOMAIN mreg[tau] THEN mreg
    ELSE [mreg EXCEPT ![tau] = Put(@, r, Weight(tau, r))]

RECURSIVE MemberFillUpTo(_, _, _)
MemberFillUpTo(mreg, tau, n) ==
    IF n < 1 THEN mreg ELSE MemberFill(MemberFillUpTo(mreg, tau, n - 1), tau, n)

\* sum([member_cache[r] for r in range(1, n + 1)])
RECURSIVE SumOfWeights(_, _)
SumOfWeights(mc, n) == IF n < 1 THEN Zero ELSE RAdd(SumOfWeights(mc, n - 1), mc[n])

\* sum_cache[n]: <<memberReg, sumReg>> after the lookup
SumFill(mreg, sreg, tau, n) ==
    IF n \in DOMAIN sreg[tau] THEN <<mreg, sreg>>
    ELSE LET m2 == MemberFillUpTo(mreg, tau, n)
         IN <<m2, [sreg EXCEPT ![tau] = Put(@, n, SumOfWeights(m2[tau], n))]>>

\* CumulationCache.__missing__: the loop over r in range(1, l), then append(1)
RECURSIVE PrefixNoAccumulate(_, _, _)
PrefixNoAccumulate(mc, denominator, r) ==
    IF r < 1 THEN <<>>
    ELSE Append(PrefixNoAccumulate(mc, denominator, r - 1), RDiv(mc[r], denominator))

RECURSIVE Prefix(_, _, _)
Prefix(mc, denominator, r) ==
    IF r < 1 THEN <<>>
    ELSE Append(Prefix(mc, denominator, r - 1), RDiv(SumOfWeights(mc, r), denominator))

Breakpoints(mc, denominator, l) == Append(Prefix(mc, denominator, l - 1), One)

\* self[l] of a CumulationCache: <<memberReg, sumReg, cumReg>> after the lookup
CumFillAnyTau(mreg, sreg, creg, tau, l) ==
    IF \E t \in DOMAIN creg : l \in DOMAIN creg[t]
    THEN LET t == CHOOSE t \in DOMAIN creg : l \in DOMAIN creg[t]
         IN <<mreg, sreg, [creg EXCEPT ![tau] = Put(@, l, creg[t][l])]>>
    ELSE LET s == SumFill(mreg, sreg, tau, l)
             m3 == MemberFillUpTo(s[1], tau, l - 1)
         IN <<m3, s[2],
              [creg EXCEPT ![tau] = Put(@, l, Breakpoints(m3[tau], s[2][tau][l], l))]>>

CumFill(mreg, sreg, creg, tau, l) ==
    IF l \in DOMAIN creg[tau] THEN <<mreg, sreg, creg>>
    ELSE LET s == SumFill(mreg, sreg, tau, l)
             m3 == MemberFillUpTo(s[1], tau, l - 1)
         IN <<m3, s[2],
              [creg EXCEPT ![tau] = Put(@, l, Breakpoints(m3[tau], s[2][tau][l], l))]>>

\* choice_one_of's scan: the first l[i] with f < cumulation[i], else None
RECURSIVE ScanInclusive(_, _, _, _)
ScanInclusive(l, f, cumulation, j) ==
    IF j > Len(l) THEN None
    ELSE IF RLeq(f, cumulation[j]) THEN l[j]
    ELSE ScanInclusive(l, f, cumulation, j + 1)

RECURSIVE Scan(_, _, _, _)
Scan(l, f, cumulation, j) ==
    IF j > Len(l) THEN None
    ELSE IF RLess(f, cumulation[j]) THEN l[j]
    ELSE Scan(l, f, cumulation, j + 1)

ChoiceOneOf(l, f, cumulation) == Scan(l, f, cumulation, 1)

\* np.random.random(): a value in [0, 1)
FDraws == {<<j, FGrid>> : j \in 0..(FGrid - 1)}
          \cup {<<Pow(2, j) - 1, Pow(2, j)>> : j \in 1..FBits}

\* __new__ of the three cache classes: register an empty table when tau is new
RegisterAnew(reg, tau) == Put(reg, tau, <<>>)

Register(reg, tau) == IF tau \in DOMAIN reg THEN reg ELSE Put(reg, tau, <<>>)

\* ------------------------------------------------------------ the inputs
\* Documents are compared only for equality, so input lists are taken up to a
\* renaming of documents: read left to right across the lists, the first
\* occurrences of documents are 1, 2, 3, ...
SetMax(S) == CHOOSE x \in S : \A y \in S : y <= x
Range(s) == {s[j] : j \in 1..Len(s)}

RECURSIVE CanonSeqs(_)
CanonSeqs(t) ==
    IF t = 0 THEN {<<>>}
    ELSE UNION {{Append(s, d) : d \in 1..(1 + SetMax(Range(s) \cup {0}))} :
                s \in CanonSeqs(t - 1)}

Cuts(m, t) == {c \in [1..(m - 1) -> 0..t] : \A j \in 1..(m - 2) : c[j] <= c[j + 1]}
Split(s, m, c) ==
    [j \in 1..m |-> SubSeq(s, (IF j = 1 THEN 0 ELSE c[j - 1]) + 1,
                              IF j = m THEN Len(s) ELSE c[j])]
InputLists(m) ==
    UNION {UNION {{Split(s, m, c) : c \in Cuts(m, t)} : s \in CanonSeqs(t)} :
           t \in 0..MaxTotal}

InterleaveInputs == InputLists(2)
MultileaveInputs == UNION {InputLists(m) : m \in RankerCounts}

\* k = min(len(a), len(b)); k = min(map(lambda l: len(l), lists))
MaxLen(ls) == CHOOSE n \in {Len(ls[j]) : j \in 1..Len(ls)} :
                  \A j \in 1..Len(ls) : n >= Len(ls[j])

MinLen(ls) == CHOOSE n \in {Len(ls[j]) : j \in 1..Len(ls)} :
                  \A j \in 1..Len(ls) : n <= Len(ls[j])

ShufflesWithRepeats(m) == [1..m -> 0..(m - 1)]

Shuffles(m) ==
    {p \in [1..m -> 0..(m - 1)] : \A x, y \in 1..m : x # y => p[x] # p[y]}

\* ----------------------------------------------------------- the engine
\* list.remove(document): drops the first occurrence; a ValueError (document
\* absent) is caught and the list is left as it is
RemoveNothing(l, d) == l

RemoveAll(l, d) == SelectSeq(l, LAMBDA x : x # d)

Remove(l, d) ==
    IF \E j \in 1..Len(l) : l[j] = d
    THEN LET p == CHOOSE j \in 1..Len(l) : l[j] = d /\ \A h \in 1..(j - 1) : l[h] # d
         IN SubSeq(l, 1, p - 1) \o SubSeq(l, p + 1, Len(l))
    ELSE l

\* rankings holds slices a[:], b[:]: removals from the working lists do not
\* reach the caller's lists
CallerListsAliased(caller, working) == working

CallerLists(caller, working) == caller

\* k <= len(result): the call returns
StopsLate(kk, res) == kk < Len(res)

Stops(kk, res) == kk <= Len(res)

\* rank_to_ranker_index.append(ranker_index)
AttributionOneBased(ranker_index) == ranker_index + 1

AttributionFlipped(ranker_index) == IF ranker_index = 0 THEN 1 ELSE 0

Attribution(ranker_index) == ranker_index

\* result.number_of_rankers in interleave
InterleaveRankers == 2

MultileaveRankers(ls) == Len(ls)

\* choice_one_of(ranking) on the engine's cache with some draw f, then the
\* appends, the test for return and the removals; shared by interleave and
\* multileave
Select(ranker_index) ==
    LET ranking == rankings[ranker_index + 1]
        n == Len(ranking)
        c == CumFill(memberReg, sumReg, cumReg, engine[1], n)
        cumulation == c[3][engine[1]][n]
    IN /\ memberReg' = c[1]
       /\ sumReg' = c[2]
       /\ cumReg' = c[3]
       /\ \E document \in {ChoiceOneOf(ranking, f, cumulation) : f \in FDraws} :
            /\ result' = Append(result, document)
            /\ IF Stops(k, result')
               THEN /\ ret' = "Ranking"
                    /\ rankings' = rankings
               ELSE /\ ret' = ret
                    /\ rankings' = [j \in 1..Len(rankings) |->
                                      Remove(rankings[j], document)]
       /\ rank_to_ranker_index' = Append(rank_to_ranker_index, Attribution(ranker_index))
       /\ lists' = CallerLists(lists, rankings')
       /\ UNCHANGED <<engine, op, k, number_of_rankers, evalVars, otherVars>>

InterleaveCall ==
    /\ pc = "idle"
    /\ \E ls \in InterleaveInputs :
         /\ lists' = ls
         /\ k' = MinLen(ls)
         /\ rankings' = ls
    /\ op' = "interleave"
    /\ result' = <<>>
    /\ number_of_rankers' = InterleaveRankers
    /\ rank_to_ranker_index' = <<>>
    /\ i' = 0
    /\ pc' = "for"
    /\ ret' = "pending"
    /\ UNCHANGED <<cacheVars, ranker_indexes, evalVars, otherVars>>

\* one iteration of "for i in range(k)"
InterleaveStep ==
    /\ pc = "for"
    /\ i < k
    /\ \E ranker_index \in 0..1 : Select(ranker_index)
    /\ i' = i + 1
    /\ pc' = IF Stops(k, result') THEN "returned" ELSE "for"
    /\ UNCHANGED ranker_indexes

\* the for loop is over and the function ends without a return statement
InterleaveFallThrough ==
    /\ pc = "for"
    /\ i >= k
    /\ ret' = "None"
    /\ pc' = "returned"
    /\ UNCHANGED <<cacheVars, op, lists, rankings, k, i, ranker_indexes, result,
                   rank_to_ranker_index, number_of_rankers, evalVars, otherVars>>

MultileaveCall ==
    /\ pc = "idle"
    /\ \E ls \in MultileaveInputs :
         /\ lists' = ls
         /\ k' = MinLen(ls)
         /\ number_of_rankers' = MultileaveRankers(ls)
         /\ rankings' = ls
    /\ op' = "multileave"
    /\ result' = <<>>
    /\ rank_to_ranker_index' = <<>>
    /\ pc' = "while"
    /\ ret' = "pending"
    /\ UNCHANGED <<cacheVars, i, ranker_indexes, evalVars, otherVars>>

\* a new round: ranker_indexes = [0 .. m-1], shuffled
MultileaveShuffle ==
    /\ pc = "while"
    /\ \E p \in Shuffles(Len(rankings)) : ranker_indexes' = p
    /\ pc' = "inner"
    /\ UNCHANGED <<cacheVars, op, lists, rankings, k, i, result,
                   rank_to_ranker_index, number_of_rankers, ret, evalVars, otherVars>>

\* one iteration of "while 0 < len(ranker_indexes)": pop, select, and back to
\* the outer loop when the round is used up
MultileaveStep ==
    /\ pc = "inner"
    /\ 0 < Len(ranker_indexes)
    /\ LET ranker_index == ranker_indexes[Len(ranker_indexes)]
           rest == SubSeq(ranker_indexes, 1, Len(ranker_indexes) - 1)
       IN /\ ranker_indexes' = rest
          /\ Select(ranker_index)
    /\ i' = i
    /\ pc' = IF Stops(k, result') THEN "returned"
             ELSE IF Len(ranker_indexes') = 0 THEN "while" ELSE "inner"

\* no call made yet, nothing evaluated yet
NoCall ==
    /\ pc = "idle"
    /\ op = "none"
    /\ lists = <<>>
    /\ rankings = <<>>
    /\ k = 0
    /\ i = 0
    /\ ranker_indexes = <<>>
    /\ result = <<>>
    /\ ret = "pending"

NoThreads ==
    /\ thread = <<>>
    /\ tau_to_instance = <<>>
    /\ instances = <<>>
    /\ written = <<>>

NoOthers ==
    /\ sample = <<>>
    /\ replay = <<>>
    /\ NoThreads

NoEvaluation ==
    /\ clicks = <<>>
    /\ counts = <<>>
    /\ pos = 0
    /\ win = <<>>
    /\ first = <<>>

\* the state after Probabilistic(): each registry holds an empty table for
\* the default tau
Init ==
    /\ engine = <<DefaultTau>>
    /\ memberReg = Register(<<>>, DefaultTau)
    /\ sumReg = Register(<<>>, DefaultTau)
    /\ cumReg = Register(<<>>, DefaultTau)
    /\ NoCall
    /\ rank_to_ranker_index = <<>>
    /\ number_of_rankers = 0
    /\ NoEvaluation
    /\ NoOthers

Next ==
    \/ InterleaveCall
    \/ InterleaveStep
    \/ InterleaveFallThrough
    \/ MultileaveCall
    \/ MultileaveShuffle
    \/ MultileaveStep

Spec == Init /\ [][Next]_vars

\* ------------------------------------------------------------ the caches
\* Probabilistic(tau): CumulationCache(tau) registers a table for tau in each
\* of the three registries unless one is there, and the engine keeps it.
\* No value of tau is refused.
Construct ==
    /\ pc = "idle"
    /\ \E tau \in Taus :
         /\ tau \in DOMAIN cumReg \/ Cardinality(DOMAIN cumReg) < MaxInstances
         /\ engine' = <<tau>>
         /\ memberReg' = Register(memberReg, tau)
         /\ sumReg' = Register(sumReg, tau)
         /\ cumReg' = Register(cumReg, tau)
    /\ UNCHANGED <<callVars, evalVars, otherVars>>

\* self._cumulation_cache[n], as choice_one_of does for a list of length n
Lookup ==
    /\ pc = "idle"
    /\ engine # <<>>
    /\ \E n \in 0..MaxN :
         LET c == CumFill(memberReg, sumReg, cumReg, engine[1], n)
         IN /\ memberReg' = c[1]
            /\ sumReg' = c[2]
            /\ cumReg' = c[3]
    /\ UNCHANGED <<engine, callVars, evalVars, otherVars>>

\* the module is loaded: the registries are empty and no engine exists
InitCache ==
    /\ engine = <<>>
    /\ memberReg = <<>>
    /\ sumReg = <<>>
    /\ cumReg = <<>>
    /\ NoCall
    /\ rank_to_ranker_index = <<>>
    /\ number_of_rankers = 0
    /\ NoEvaluation
    /\ NoOthers

NextCache == Construct \/ Lookup

SpecCache == InitCache /\ [][NextCache]_vars

\* -------------------------------------------------------------- evaluate
\* counts[rank_to_ranker_index[d]] += 1
CountOnlyLatest(cs, ranker) == [j \in 1..Len(cs) |-> IF j = ranker + 1 THEN cs[j] + 1 ELSE 0]

Count(cs, ranker) == [cs EXCEPT ![ranker + 1] = @ + 1]

\* the tuple evaluate returns for the counters cs
WinsWithoutTie(cs) ==
    [j \in 1..Len(cs) |-> IF cs[j] = SetMax(Range(cs)) THEN 1 ELSE 0]

Wins(cs) ==
    LET max_count == SetMax(Range(cs))
        min_count == CHOOSE x \in Range(cs) : \A y \in Range(cs) : x <= y
    IN IF max_count = min_count
       THEN [j \in 1..Len(cs) |-> 0]
       ELSE [j \in 1..Len(cs) |-> IF max_count = cs[j] THEN 1 ELSE 0]

\* counts = [0] * ranking.number_of_rankers
EvaluateCall ==
    /\ pc = "evaluate"
    /\ counts' = [j \in 1..number_of_rankers |-> 0]
    /\ pos' = 0
    /\ pc' = "clicks"
    /\ UNCHANGED <<otherVars, cacheVars, op, lists, rankings, k, i, ranker_indexes, result,
                   rank_to_ranker_index, number_of_rankers, ret, clicks, win, first>>

\* one iteration of "for d in clicks"
EvaluateClick ==
    /\ pc = "clicks"
    /\ pos < Len(clicks)
    /\ LET d == clicks[pos + 1]
       IN counts' = Count(counts, rank_to_ranker_index[d + 1])
    /\ pos' = pos + 1
    /\ UNCHANGED <<otherVars, cacheVars, callVars, clicks, win, first>>

EvaluateReturn ==
    /\ pc = "clicks"
    /\ pos = Len(clicks)
    /\ win' = Wins(counts)
    /\ first' = IF first = <<>> THEN <<clicks, win'>> ELSE first
    /\ pc' = "evaluated"
    /\ UNCHANGED <<otherVars, cacheVars, op, lists, rankings, k, i, ranker_indexes, result,
                   rank_to_ranker_index, number_of_rankers, ret, clicks, counts, pos>>

SeqPermutations(s) ==
    {[j \in 1..Len(s) |-> s[p[j]]] :
        p \in {q \in [1..Len(s) -> 1..Len(s)] :
                   \A x, y \in 1..Len(s) : x # y => q[x] # q[y]}}

\* the caller evaluates the same ranking again, with the clicks in another order
EvaluateAgain ==
    /\ pc = "evaluated"
    /\ \E again \in SeqPermutations(clicks) : clicks' = again
    /\ pc' = "evaluate"
    /\ UNCHANGED <<otherVars, cacheVars, op, lists, rankings, k, i, ranker_indexes, result,
                   rank_to_ranker_index, number_of_rankers, ret, counts, pos, win,
                   first>>

\* Rankings are taken up to a renaming of rankers (the first occurrences of
\* ranker indexes are 0, 1, 2, ...): renaming rankers permutes the counters
\* and the returned tuple alike.
EvalRankings ==
    UNION {{[j \in 1..Len(s) |-> s[j] - 1] : s \in CanonSeqs(n)} : n \in 0..MaxRankLen}

ClickSeqs(n) == UNION {[1..c -> 0..(n - 1)] : c \in 0..MaxClicks}

\* a Ranking and a list of clicked positions are given to evaluate
InitEval ==
    /\ engine = <<>>
    /\ memberReg = <<>>
    /\ sumReg = <<>>
    /\ cumReg = <<>>
    /\ op = "evaluate"
    /\ pc = "evaluate"
    /\ lists = <<>>
    /\ rankings = <<>>
    /\ k = 0
    /\ i = 0
    /\ ranker_indexes = <<>>
    /\ result = <<>>
    /\ ret = "pending"
    /\ number_of_rankers \in RankerCounts
    /\ rank_to_ranker_index \in
           {r \in EvalRankings : \A j \in 1..Len(r) : r[j] < number_of_rankers}
    /\ clicks \in ClickSeqs(Len(rank_to_ranker_index))
    /\ counts = <<>>
    /\ pos = 0
    /\ win = <<>>
    /\ first = <<>>
    /\ NoOthers

NextEval == EvaluateCall \/ EvaluateClick \/ EvaluateReturn \/ EvaluateAgain

SpecEval == InitEval /\ [][NextEval]_vars

\* ------------------------------------------------------------- sampling
\* choice_one_of called directly on the table of an engine, with any list of
\* candidates (the empty one included) and any draw, after any lookups; one
\* such call is followed per behaviour
Candidates == UNION {CanonSeqs(n) : n \in 0..MaxN}

ChoiceCall ==
    /\ pc = "idle"
    /\ engine # <<>>
    /\ \E l \in Candidates, f \in FDraws :
         LET n == Len(l)
             c == CumFill(memberReg, sumReg, cumReg, engine[1], n)
             cumulation == c[3][engine[1]][n]
         IN /\ memberReg' = c[1]
            /\ sumReg' = c[2]
            /\ cumReg' = c[3]
            /\ sample' = <<l, f, ChoiceOneOf(l, f, cumulation)>>
    /\ pc' = "returned"
    /\ UNCHANGED <<engine, op, lists, rankings, k, i, ranker_indexes, result,
                   rank_to_ranker_index, number_of_rankers, ret, evalVars, replay, threadVars>>

\* the state after CumulationCache(tau), for some tau
InitChoice ==
    /\ engine \in {<<tau>> : tau \in Taus}
    /\ memberReg = Register(<<>>, engine[1])
    /\ sumReg = Register(<<>>, engine[1])
    /\ cumReg = Register(<<>>, engine[1])
    /\ NoCall
    /\ rank_to_ranker_index = <<>>
    /\ number_of_rankers = 0
    /\ NoEvaluation
    /\ NoOthers

NextChoice == Lookup \/ ChoiceCall

SpecChoice == InitChoice /\ [][NextChoice]_vars

\* ------------------------------------------------------ multileave rounds
\* multileave on lists long enough for a second round: m lists of RoundLen
\* documents each, either all holding the same documents in the same order
\* or pairwise disjoint
RoundInputs ==
    UNION {{[j \in 1..m |-> [h \in 1..RoundLen |-> h]],
            [j \in 1..m |-> [h \in 1..RoundLen |-> (j - 1) * RoundLen + h]]} :
           m \in RankerCounts}

MultileaveCallLong ==
    /\ pc = "idle"
    /\ \E ls \in RoundInputs :
         /\ lists' = ls
         /\ k' = MinLen(ls)
         /\ number_of_rankers' = MultileaveRankers(ls)
         /\ rankings' = ls
    /\ op' = "multileave"
    /\ result' = <<>>
    /\ rank_to_ranker_index' = <<>>
    /\ pc' = "while"
    /\ ret' = "pending"
    /\ UNCHANGED <<cacheVars, i, ranker_indexes, evalVars, otherVars>>

NextRounds == MultileaveCallLong \/ MultileaveShuffle \/ MultileaveStep

SpecRounds == Init /\ [][NextRounds]_vars

\* ---------------------------------------------------------- two runs
\* One call made twice on the same inputs by engines of the same tau, both
\* runs receiving the same draws (the same randint / shuffle outcomes and the
\* same values f). The first run starts from registries filled by earlier
\* constructions and lookups, the second from registries new for tau.
Fresh(tau) == <<Register(<<>>, tau), Register(<<>>, tau), Register(<<>>, tau)>>
Constructed(regs, tau) ==
    <<Register(regs[1], tau), Register(regs[2], tau), Register(regs[3], tau)>>

RECURSIVE LookedUp(_, _, _)
LookedUp(regs, tau, n) ==
    IF n < 0 THEN regs
    ELSE LET b == LookedUp(regs, tau, n - 1) IN CumFill(b[1], b[2], b[3], tau, n)

Prefills(tau) ==
    LET own == {Fresh(tau), LookedUp(Fresh(tau), tau, MaxN)}
    IN own \cup {LookedUp(Constructed(o, t), t, MaxN) : o \in own, t \in Taus \ {tau}}

ReplayInputs(m) ==
    UNION {UNION {{Split(s, m, c) : c \in Cuts(m, t)} : s \in CanonSeqs(t)} :
           t \in 0..ReplayTotal}
ReplayInterleaveInputs == ReplayInputs(2)
ReplayMultileaveInputs == UNION {ReplayInputs(m) : m \in RankerCounts}

\* one selection with draw f, from the registries regs, the working lists rks
\* and the documents res: what Select does, as a function of the draw
SelectWith(regs, rks, res, ranker_index, f) ==
    LET ranking == rks[ranker_index + 1]
        n == Len(ranking)
        c == CumFill(regs[1], regs[2], regs[3], engine[1], n)
        document == ChoiceOneOf(ranking, f, c[3][engine[1]][n])
        res2 == Append(res, document)
    IN [regs |-> c, result |-> res2,
        rankings |-> IF Stops(k, res2) THEN rks
                     ELSE [j \in 1..Len(rks) |-> Remove(rks[j], document)]]

SelectTwice(ranker_index) ==
    /\ \E pair \in {<<SelectWith(<<memberReg, sumReg, cumReg>>, rankings, result,
                                  ranker_index, f),
                       SelectWith(replay.regs, replay.rankings, replay.result,
                                  ranker_index, f)>> : f \in FDraws} :
         /\ memberReg' = pair[1].regs[1]
         /\ sumReg' = pair[1].regs[2]
         /\ cumReg' = pair[1].regs[3]
         /\ result' = pair[1].result
         /\ rankings' = pair[1].rankings
         /\ ret' = IF Stops(k, result') THEN "Ranking" ELSE ret
         /\ replay' = [regs |-> pair[2].regs,
                       rankings |-> pair[2].rankings,
                       result |-> pair[2].result,
                       rank_to_ranker_index |->
                           Append(replay.rank_to_ranker_index, Attribution(ranker_index))]
    /\ rank_to_ranker_index' = Append(rank_to_ranker_index, Attribution(ranker_index))
    /\ lists' = CallerLists(lists, rankings')
    /\ UNCHANGED <<engine, op, k, number_of_rankers, evalVars, sample, threadVars>>

TwoRunsInterleaveCall ==
    /\ pc = "idle"
    /\ \E ls \in ReplayInterleaveInputs :
         /\ lists' = ls
         /\ k' = MinLen(ls)
         /\ rankings' = ls
         /\ replay' = [replay EXCEPT !.rankings = ls]
    /\ number_of_rankers' = InterleaveRankers
    /\ op' = "interleave"
    /\ i' = 0
    /\ result' = <<>>
    /\ rank_to_ranker_index' = <<>>
    /\ pc' = "for"
    /\ ret' = "pending"
    /\ UNCHANGED <<cacheVars, ranker_indexes, evalVars, sample, threadVars>>

TwoRunsInterleaveStep ==
    /\ pc = "for"
    /\ i < k
    /\ \E ranker_index \in 0..(number_of_rankers - 1) : SelectTwice(ranker_index)
    /\ i' = i + 1
    /\ pc' = IF Stops(k, result') THEN "returned" ELSE "for"
    /\ UNCHANGED ranker_indexes

TwoRunsMultileaveCall ==
    /\ pc = "idle"
    /\ \E ls \in ReplayMultileaveInputs :
         /\ lists' = ls
         /\ k' = MinLen(ls)
         /\ number_of_rankers' = MultileaveRankers(ls)
         /\ rankings' = ls
         /\ replay' = [replay EXCEPT !.rankings = ls]
    /\ op' = "multileave"
    /\ result' = <<>>
    /\ rank_to_ranker_index' = <<>>
    /\ pc' = "while"
    /\ ret' = "pending"
    /\ UNCHANGED <<cacheVars, i, ranker_indexes, evalVars, sample, threadVars>>

TwoRunsMultileaveStep ==
    /\ pc = "inner"
    /\ 0 < Len(ranker_indexes)
    /\ LET ranker_index == ranker_indexes[Len(ranker_indexes)]
           rest == SubSeq(ranker_indexes, 1, Len(ranker_indexes) - 1)
       IN /\ ranker_indexes' = rest
          /\ SelectTwice(ranker_index)
    /\ i' = i
    /\ pc' = IF Stops(k, result') THEN "returned"
             ELSE IF Len(ranker_indexes') = 0 THEN "while" ELSE "inner"

\* both engines built with the same tau; the first finds registries that
\* earlier constructions and lookups have filled
InitTwoRuns ==
    /\ engine \in {<<tau>> : tau \in Taus}
    /\ \E regs \in Prefills(engine[1]) :
         /\ memberReg = regs[1]
         /\ sumReg = regs[2]
         /\ cumReg = regs[3]
    /\ NoCall
    /\ rank_to_ranker_index = <<>>
    /\ number_of_rankers = 0
    /\ NoEvaluation
    /\ sample = <<>>
    /\ NoThreads
    /\ replay = [regs |-> Fresh(engine[1]), rankings |-> <<>>, result |-> <<>>,
                 rank_to_ranker_index |-> <<>>]

NextTwoRuns ==
    \/ TwoRunsInterleaveCall
    \/ TwoRunsInterleaveStep
    \/ InterleaveFallThrough
    \/ TwoRunsMultileaveCall
    \/ MultileaveShuffle
    \/ TwoRunsMultileaveStep

SpecTwoRuns == InitTwoRuns /\ [][NextTwoRuns]_vars

\* ------------------------------------------------------------- threads
\* Two threads, each evaluating CumulationCache(tau)[n] for some tau and n.
\* The code takes no lock, so the threads may be switched between any two of
\* its steps: the test "tau not in cls._tau_to_instance", the insertion of a
\* new instance, the read of the registered instance, the lookup of n in the
\* instance, and the write self[l] = result of __missing__.
Threads == {1, 2}

\* the list __missing__ computes for l in a table of tau
BreakpointsOf(tau, l) ==
    LET regs == Fresh(tau)
    IN CumFill(regs[1], regs[2], regs[3], tau, l)[3][tau][l]

WrittenTimes(key) == IF key \in DOMAIN written THEN written[key] ELSE 0

ThreadFrame == UNCHANGED <<cacheVars, callVars, evalVars, sample, replay>>

\* if tau not in cls._tau_to_instance
ThreadNewCheck ==
    /\ \E t \in Threads :
         /\ thread[t].pc = "new"
         /\ thread' = [thread EXCEPT ![t].pc =
                IF thread[t].tau \in DOMAIN tau_to_instance THEN "return" ELSE "insert"]
    /\ UNCHANGED <<tau_to_instance, instances, written>>
    /\ ThreadFrame

\* cls._tau_to_instance[tau] = dict.__new__(cls, tau)
ThreadNewInsert ==
    /\ \E t \in Threads :
         /\ thread[t].pc = "insert"
         /\ instances' = Append(instances, [tau |-> thread[t].tau, entries |-> <<>>])
         /\ tau_to_instance' = Put(tau_to_instance, thread[t].tau, Len(instances'))
         /\ thread' = [thread EXCEPT ![t].pc = "return"]
    /\ UNCHANGED written
    /\ ThreadFrame

\* return cls._tau_to_instance[tau]
ThreadNewReturn ==
    /\ \E t \in Threads :
         /\ thread[t].pc = "return"
         /\ thread' = [thread EXCEPT ![t].self = tau_to_instance[thread[t].tau],
                                     ![t].pc = "getitem"]
    /\ UNCHANGED <<tau_to_instance, instances, written>>
    /\ ThreadFrame

\* self[n]: a hit returns the entry, a miss enters __missing__
ThreadGetItem ==
    /\ \E t \in Threads :
         /\ thread[t].pc = "getitem"
         /\ thread' = [thread EXCEPT ![t].pc =
                IF thread[t].n \in DOMAIN instances[thread[t].self].entries
                THEN "done" ELSE "missing"]
    /\ UNCHANGED <<tau_to_instance, instances, written>>
    /\ ThreadFrame

\* __missing__: self[l] = result
ThreadMissingWrite ==
    /\ \E t \in Threads :
         LET key == <<thread[t].tau, thread[t].n>>
         IN /\ thread[t].pc = "missing"
            /\ instances' = [instances EXCEPT ![thread[t].self].entries =
                   Put(@, thread[t].n, BreakpointsOf(thread[t].tau, thread[t].n))]
            /\ written' = Put(written, key, WrittenTimes(key) + 1)
            /\ thread' = [thread EXCEPT ![t].pc = "done"]
    /\ UNCHANGED tau_to_instance
    /\ ThreadFrame

\* the module is loaded and each thread is about to evaluate
\* CumulationCache(tau)[n]
InitThreads ==
    /\ engine = <<>>
    /\ memberReg = <<>>
    /\ sumReg = <<>>
    /\ cumReg = <<>>
    /\ NoCall
    /\ rank_to_ranker_index = <<>>
    /\ number_of_rankers = 0
    /\ NoEvaluation
    /\ sample = <<>>
    /\ replay = <<>>
    /\ thread \in [Threads -> {[pc |-> "new", tau |-> tau, n |-> n, self |-> 0] :
                                  tau \in Taus, n \in 0..MaxN}]
    /\ tau_to_instance = <<>>
    /\ instances = <<>>
    /\ written = <<>>

NextThreads ==
    \/ ThreadNewCheck
    \/ ThreadNewInsert
    \/ ThreadNewReturn
    \/ ThreadGetItem
    \/ ThreadMissingWrite

SpecThreads == InitThreads /\ [][NextThreads]_vars

\* ------------------------------------------------ claims about the engine
AllNonEmpty(ls) == \A j \in 1..Len(ls) : Len(ls[j]) > 0
SomeEmpty(ls) == \E j \in 1..Len(ls) : Len(ls[j]) = 0
NoRepeats(s) == \A x, y \in 1..Len(s) : x # y => s[x] # s[y]
\* n is the least length among the lists ls
IsMinimumLength(n, ls) ==
    /\ \E j \in 1..Len(ls) : n = Len(ls[j])
    /\ \A j \in 1..Len(ls) : n <= Len(ls[j])

\* C1: interleave(a, b) on two non-empty lists returns a Ranking that holds
\* exactly min(len(a), len(b)) documents, whatever the draws.
C1_InterleaveLength ==
    (op = "interleave" /\ pc = "returned" /\ AllNonEmpty(lists))
        => (ret = "Ranking" /\ IsMinimumLength(Len(result), lists))

C1_Witness ==
    /\ op = "interleave" /\ pc = "returned" /\ ret = "Ranking"
    /\ Len(lists[1]) = 2 /\ Len(lists[2]) = 3 /\ Len(result) = 2

\* C2: multileave on non-empty lists appends one document per selection step,
\* never holds more than k = the least input length, and returns at the very
\* step that brings the result to k documents (also when indexes of the
\* current round are still unprocessed), and at no other step.
MultileaveStepStopsAtK ==
    (op = "multileave" /\ AllNonEmpty(lists))
        => /\ result' # result
                => (pc = "inner" /\ Len(result') = Len(result) + 1)
           /\ \A n \in 0..MaxTotal : IsMinimumLength(n, lists) =>
                /\ Len(result') <= n
                /\ (pc' = "returned") <=> (Len(result') = n)
                /\ (ret' = "Ranking") <=> (Len(result') = n)

C2_MultileaveStopsAtK == [][MultileaveStepStopsAtK]_vars

C2_Witness ==
    /\ op = "multileave" /\ pc = "returned" /\ ret = "Ranking"
    /\ Len(lists) = 3 /\ AllNonEmpty(lists)
    /\ Len(ranker_indexes) = 2
    /\ IsMinimumLength(Len(result), lists)

\* C3: when no input list repeats a document, the Ranking never holds a
\* document twice (the lists may share documents).
C3_NoDuplicates ==
    (op \in {"interleave", "multileave"} /\ \A j \in 1..Len(lists) : NoRepeats(lists[j]))
        => NoRepeats(result)

C3_Witness ==
    /\ op \in {"interleave", "multileave"} /\ pc = "returned"
    /\ lists[1] = <<1, 2>> /\ lists[2] = <<2, 1>>
    /\ Len(result) = 2 /\ NoRepeats(result)

\* C4: after every selection step and at return, rank_to_ranker_index is as
\* long as the ranking, its entries are in [0, m) and number_of_rankers is m,
\* where m is 2 for interleave and the number of input lists for multileave.
C4_Provenance ==
    (op \in {"interleave", "multileave"}) =>
        /\ Len(rank_to_ranker_index) = Len(result)
        /\ \A j \in 1..Len(rank_to_ranker_index) :
               rank_to_ranker_index[j] \in 0..(Len(lists) - 1)
        /\ number_of_rankers = Len(lists)
        /\ op = "interleave" => number_of_rankers = 2

C4_Witness ==
    /\ op = "multileave" /\ pc = "returned" /\ Len(lists) = 3
    /\ Len(result) = 1 /\ rank_to_ranker_index = <<2>> /\ number_of_rankers = 3

\* C7: when an input list is empty, interleave and multileave fail with an
\* InvalidArgument error: no Ranking is returned, no None is returned, and no
\* document or placeholder is ever put in a Ranking.
C7_EmptyInputRejected ==
    (op \in {"interleave", "multileave"} /\ SomeEmpty(lists))
        => (result = <<>> /\ (pc = "returned" => ret = "InvalidArgument"))

\* C9: during and after a call the caller's input lists are what they were
\* when the call was made.
C9_InputsUnchanged ==
    [][(op \in {"interleave", "multileave"}) => (lists' = lists)]_vars

C9_Witness ==
    /\ op \in {"interleave", "multileave"} /\ pc = "returned"
    /\ \E j \in 1..Len(lists) : rankings[j] # lists[j]

\* ------------------------------------------------ claims about evaluate
\* the number of clicks on positions that ranker r contributed
Attributed(r) ==
    Cardinality({p \in 1..Len(clicks) : rank_to_ranker_index[clicks[p] + 1] = r})

Rankers == 0..(number_of_rankers - 1)

\* C5: evaluate returns a tuple of number_of_rankers entries: all 0 when the
\* largest per-ranker click counter equals the smallest (also with no click),
\* otherwise 1 exactly at the rankers whose counter is the largest; with
\* rank_to_ranker_index = [0,1,0,1], clicks [0] give (1,0), clicks [0,1] give
\* (0,0) and clicks [0,2] give (1,0).
C5_EvaluateResult ==
    pc = "evaluated" =>
        /\ Len(win) = number_of_rankers
        /\ IF \A r, q \in Rankers : Attributed(r) = Attributed(q)
           THEN \A r \in Rankers : win[r + 1] = 0
           ELSE \A r \in Rankers :
                    win[r + 1] = IF \A q \in Rankers : Attributed(q) <= Attributed(r)
                                 THEN 1 ELSE 0
        /\ (number_of_rankers = 2 /\ rank_to_ranker_index = <<0, 1, 0, 1>>) =>
               /\ clicks = <<0>> => win = <<1, 0>>
               /\ clicks = <<0, 1>> => win = <<0, 0>>
               /\ clicks = <<0, 2>> => win = <<1, 0>>

C5_Witness ==
    /\ pc = "evaluated" /\ number_of_rankers = 3
    /\ rank_to_ranker_index = <<0, 1, 2, 1>> /\ clicks = <<3, 0>>
    /\ win = <<1, 1, 0>>

\* C6: evaluating a ranking with the same clicks in another order returns the
\* tuple the first evaluation returned.
C6_ClickOrderIrrelevant ==
    (pc = "evaluated" /\ first # <<>>) => win = first[2]

C6_Witness ==
    /\ pc = "evaluated" /\ first # <<>>
    /\ first[1] = <<0, 1>> /\ clicks = <<1, 0>>
    /\ rank_to_ranker_index = <<0, 0, 1>> /\ win = <<1, 0>>

\* ------------------------------------------------ claims about the caches
\* C8: a tau <= 0 is rejected: no engine holds it and no registry has a
\* table for it (so nothing is computed from it).
C8_NonPositiveTauRejected ==
    /\ \A tau \in DOMAIN memberReg \cup DOMAIN sumReg \cup DOMAIN cumReg : tau > 0
    /\ engine # <<>> => engine[1] > 0

\* w(r) = 1 / r^tau for tau > 0, and the sum of w(1) .. w(n)
RankWeight(tau, r) == <<1, Pow(r, tau)>>
RECURSIVE RankWeightSum(_, _)
RankWeightSum(tau, n) ==
    IF n = 0 THEN Zero ELSE RAdd(RankWeightSum(tau, n - 1), RankWeight(tau, n))
REq(x, y) == x[1] * y[2] = y[1] * x[2]

\* C10: for tau > 0 and n >= 1 the cached breakpoints for n are n numbers in
\* [0, 1], non-decreasing, entry i (0-based, i < n - 1) is
\* (w(1) + .. + w(i+1)) / (w(1) + .. + w(n)), and the last one is exactly 1.
C10_Breakpoints ==
    \A tau \in DOMAIN cumReg : \A n \in DOMAIN cumReg[tau] :
        (tau > 0 /\ n >= 1) =>
            LET b == cumReg[tau][n]
            IN /\ Len(b) = n
               /\ \A j \in 1..n : RLeq(Zero, b[j]) /\ RLeq(b[j], One)
               /\ \A j \in 1..(n - 1) : RLeq(b[j], b[j + 1])
               /\ \A j \in 1..(n - 1) :
                      REq(b[j], RDiv(RankWeightSum(tau, j), RankWeightSum(tau, n)))
               /\ b[n] = <<1, 1>>

C10_Witness ==
    /\ 3 \in DOMAIN cumReg /\ 3 \in DOMAIN cumReg[3]
    /\ cumReg[3][3] = <<<<216, 251>>, <<243, 251>>, <<1, 1>>>>

\* C11: memoization is stable: whatever is done next (another engine built
\* with the same or another tau, another lookup), every table registered
\* stays registered and every entry a table holds, a weight, a sum or a list
\* of breakpoints, stays in it with the value it has, so a later request with
\* the same key finds that value.
Kept(reg) ==
    \A tau \in DOMAIN reg :
        /\ tau \in DOMAIN reg'
        /\ \A key \in DOMAIN reg[tau] :
               key \in DOMAIN reg'[tau] /\ reg'[tau][key] = reg[tau][key]

C11_MemoStable == [][Kept(memberReg) /\ Kept(sumReg) /\ Kept(cumReg)]_vars

C11_Witness ==
    /\ engine = <<3>>
    /\ DOMAIN cumReg = {1, 3}
    /\ DOMAIN cumReg[1] = {2}
    /\ DOMAIN cumReg[3] = {1, 3}
    /\ DOMAIN memberReg[3] = {1, 2, 3}

\* ------------------------------------------- more claims about the engine
Last(s) == s[Len(s)]
Disjoint(a, b) == Range(a) \cap Range(b) = {}

\* C12 as stated: for disjoint input lists of equal length, every document of
\* both input lists appears exactly once in the Ranking interleave returns.
C12_AllDocumentsAppear ==
    (op = "interleave" /\ pc = "returned" /\ Len(lists[1]) = Len(lists[2])
         /\ Len(lists[1]) >= 1 /\ Disjoint(lists[1], lists[2]))
        => \A d \in Range(lists[1]) \cup Range(lists[2]) :
               Cardinality({j \in 1..Len(result) : result[j] = d}) = 1

\* C12 as amended: for disjoint input lists of equal length n >= 1 that hold
\* no document twice, interleave returns a Ranking of n documents, each of
\* them a document of an input list and none of them twice; so n of the 2n
\* input documents appear, and the other n do not.
C12_ValidInterleaving ==
    (op = "interleave" /\ pc = "returned" /\ Len(lists[1]) = Len(lists[2])
         /\ Len(lists[1]) >= 1 /\ Disjoint(lists[1], lists[2])
         /\ NoRepeats(lists[1]) /\ NoRepeats(lists[2]))
        => /\ ret = "Ranking"
           /\ Len(result) = Len(lists[1])
           /\ Range(result) \subseteq Range(lists[1]) \cup Range(lists[2])
           /\ NoRepeats(result)
           /\ Cardinality((Range(lists[1]) \cup Range(lists[2])) \ Range(result))
                  = Len(lists[1])

C12_Witness ==
    /\ op = "interleave" /\ pc = "returned"
    /\ lists = <<<<1, 2>>, <<3, 4>>>>
    /\ result = <<3, 1>> /\ rank_to_ranker_index = <<1, 0>>

\* C13: on non-empty input lists no working list is empty while the call
\* still has a document to select, so the list sampled next is never empty.
C13_NoEmptyWorkingList ==
    (op \in {"interleave", "multileave"} /\ AllNonEmpty(lists))
        => /\ AllNonEmpty(rankings)
           /\ pc = "for" => i < k
           /\ pc = "inner" => Len(rankings[Last(ranker_indexes) + 1]) > 0

C13_Witness ==
    /\ pc = "inner" /\ Len(lists) = 2 /\ AllNonEmpty(lists)
    /\ Len(result) = 1 /\ k = 2
    /\ lists[1] = lists[2]
    /\ Len(rankings[Last(ranker_indexes) + 1]) = 1

\* C14: choice_one_of on a non-empty list of candidates with a draw f returns
\* the candidate at the smallest index whose breakpoint is above f; there is
\* such an index, so the value returned is one of the candidates.
C14_ChoiceIsFirstAbove ==
    (sample # <<>> /\ Len(sample[1]) > 0)
        => LET l == sample[1]
               f == sample[2]
               breakpoints == cumReg[engine[1]][Len(l)]
           IN /\ \E j \in 1..Len(l) :
                    /\ RLess(f, breakpoints[j])
                    /\ \A h \in 1..(j - 1) : ~RLess(f, breakpoints[h])
                    /\ sample[3] = l[j]
              /\ sample[3] \in Range(l)

C14_Witness ==
    /\ engine = <<3>>
    /\ sample = <<<<1, 2, 3>>, <<7, 8>>, 2>>

\* C15: a sampling call that finds no breakpoint above the draw (as on a list
\* of length 0) raises an error: no absent value is returned and put in a
\* Ranking as if it were a document.
C15_NoPlaceholderDocument ==
    \A j \in 1..Len(result) : result[j] # None

\* C16: after a selection step that is not the last one, every working list
\* is what it was without any occurrence of the selected document: the
\* document is in no working list, a list that did not hold it is unchanged,
\* and the other documents keep their order.
SelectedIsRemoved ==
    (op \in {"interleave", "multileave"} /\ result' # result /\ pc' # "returned")
        => \A j \in 1..Len(rankings) :
               rankings'[j] = SelectSeq(rankings[j], LAMBDA x : x # Last(result'))

C16_SelectedRemovedEverywhere == [][SelectedIsRemoved]_vars

\* C17: in multileave with m lists each round takes the m indexes in some
\* order, once each: the entries of rank_to_ranker_index within one block of m
\* positions are pairwise distinct (and distinct from the indexes the round
\* still holds), so in every prefix the numbers of documents attributed to
\* two lists differ by at most one.
AttributedUpTo(r, p) == Cardinality({j \in 1..p : rank_to_ranker_index[j] = r})

C17_RoundsArePermutations ==
    (op = "multileave" /\ number_of_rankers > 0)
        => LET m == number_of_rankers
               n == Len(rank_to_ranker_index)
           IN /\ \A x, y \in 1..n :
                    (x # y /\ (x - 1) \div m = (y - 1) \div m)
                        => rank_to_ranker_index[x] # rank_to_ranker_index[y]
              /\ pc = "inner" =>
                    /\ NoRepeats(ranker_indexes)
                    /\ \A x \in 1..n : \A y \in 1..Len(ranker_indexes) :
                          (x - 1) \div m = n \div m
                              => rank_to_ranker_index[x] # ranker_indexes[y]
              /\ \A p \in 0..n : \A a, b \in 0..(m - 1) :
                    AttributedUpTo(a, p) - AttributedUpTo(b, p) <= 1

C17_Witness ==
    /\ op = "multileave" /\ number_of_rankers = 2
    /\ Len(rank_to_ranker_index) >= 4
    /\ SubSeq(rank_to_ranker_index, 1, 4) = <<0, 1, 1, 0>>
    /\ SubSeq(result, 1, 4) = <<1, 5, 6, 2>>

\* C18: two runs of a call on the same inputs, with the same tau and the same
\* draws, hold the same documents and the same rank_to_ranker_index after
\* every step and at the return, whatever the registries held when each run
\* started.
C18_SameDrawsSameRanking ==
    (op \in {"interleave", "multileave"})
        => /\ replay.result = result
           /\ replay.rank_to_ranker_index = rank_to_ranker_index
           /\ replay.rankings = rankings

C18_Witness ==
    /\ op = "interleave" /\ pc = "returned" /\ ret = "Ranking"
    /\ engine = <<3>>
    /\ DOMAIN cumReg = {1, 3}
    /\ 1 \in DOMAIN cumReg[1] /\ 2 \in DOMAIN cumReg[1]
    /\ DOMAIN replay.regs[3] = {3}
    /\ lists = <<<<1>>, <<2, 3>>>>
    /\ result = <<3>> /\ replay.result = <<3>>

\* C19: when two threads make the first request for one tau or one (tau, n)
\* at the same time, one writer fills each key: no tau gets two table
\* instances, no key is written twice, and no entry written is lost from the
\* table registered for its tau.
C19_OneWriterPerKey ==
    /\ \A x, y \in 1..Len(instances) :
           instances[x].tau = instances[y].tau => x = y
    /\ \A key \in DOMAIN written : written[key] <= 1
    /\ \A x \in 1..Len(instances) : \A n \in DOMAIN instances[x].entries :
           n \in DOMAIN instances[tau_to_instance[instances[x].tau]].entries

\* C20: in a call on non-empty input lists, the document at each position of
\* the Ranking is a member of the input list that rank_to_ranker_index names
\* for that position.
C20_TruthfulProvenance ==
    (op \in {"interleave", "multileave"} /\ AllNonEmpty(lists))
        => \A j \in 1..Len(result) :
               /\ j <= Len(rank_to_ranker_index)
               /\ rank_to_ranker_index[j] \in 0..(Len(lists) - 1)
               /\ result[j] \in Range(lists[rank_to_ranker_index[j] + 1])

C20_Witness ==
    /\ op = "multileave" /\ pc = "returned"
    /\ lists = <<<<1>>, <<2>>, <<3, 4>>>>
    /\ result = <<4>> /\ rank_to_ranker_index = <<2>>

====
